---- MODULE Spec2Model ----
(***************************************************************************)
(* Model of the coordination engine of MultiWriter:                        *)
(*   - CentralManager (src/src/orchestrator/central_manager.py): the task  *)
(*     scheduler execute_plan / _get_ready_tasks / _execute_task /         *)
(*     _update_dependent_contexts / _check_needs_revision;                 *)
(*   - PlanningLoop (src/src/orchestrator/planning_loop.py): the phase     *)
(*     pipeline that builds the tasks of each phase and submits them to    *)
(*     one execute_plan call per phase.                                    *)
(*                                                                         *)
(* A task name is a sequence of string fragments whose concatenation is    *)
(* the Python string ("scene_1" is <<"scene_", "1">>); str.startswith is   *)
(* the prefix relation on these sequences and a wildcard dependency is a   *)
(* name whose last fragment is "*".                                        *)
(***************************************************************************)
EXTENDS Integers, Sequences, FiniteSets, TLC

VARIABLES
    config,                  \* self.config: [max_global_iterations]
    tasks,                   \* self.tasks, in insertion order: Seq of AgentTask
    completed_tasks,         \* self.completed_tasks (its keys)
    failed_tasks,            \* self.failed_tasks (its keys)
    iteration,               \* local `iteration` of execute_plan
    ready_tasks,             \* local `ready_tasks`: Seq of indices into tasks
    ready_pos,               \* number of entries of ready_tasks already visited
    running,                 \* index of the task awaiting agent.execute, or 0
    pc,                      \* position inside execute_plan
    returned,                \* the value execute_plan returned last
    log,                     \* the "Executing <name>" log lines: Seq of [pass, task]
    completed_at_pass_start, \* completed_tasks as _get_ready_tasks saw it
    planning,                \* state of execute_planning_loop (phase, phase outputs)
    quality_gates,           \* self.quality_gates of the PlanningLoop: gate -> validator
    gate_check               \* the last call of _check_quality_gate, what it returned,
                             \* and whether it repeated the call before it

vars == <<config, tasks, completed_tasks, failed_tasks, iteration, ready_tasks,
          ready_pos, running, pc, returned, log, completed_at_pass_start, planning,
          quality_gates, gate_check>>

(***************************************************************************)
(* Bounds of the model and constants of the program                        *)
(***************************************************************************)
\* largest configured max_global_iterations besides the default
MaxConfigIterations == 2
\* largest per-task max_iterations of the generated plans
MaxTaskIterations == 2
\* largest number of arcs the outline architect proposes
MaxArcs == 2

\* gates of the registry that register_quality_gate has overridden
MaxRegistrations == 1

\* config.get("max_global_iterations", 5)
DefaultMaxGlobalIterations == 5
\* AgentTask.__init__(..., max_iterations: int = 3, ...)
DefaultMaxIterations == 3

(***************************************************************************)
(* AgentStatus                                                             *)
(***************************************************************************)
PENDING == "pending"
RUNNING == "running"
COMPLETED == "completed"
FAILED == "failed"
SKIPPED == "skipped"
AgentStatus == {PENDING, RUNNING, COMPLETED, FAILED, SKIPPED}

\* Optional values: None is the empty sequence, a present value v is <<v>>
None == <<>>
Some(v) == <<v>>

(***************************************************************************)
(* Strings: str.endswith("*"), dep_name[:-1], str.startswith               *)
(***************************************************************************)
EndsWithStar(name) == Len(name) > 0 /\ name[Len(name)] = "*"

DropLast(name) == SubSeq(name, 1, Len(name) - 1)

\* the arguments of startswith exchanged
StartsWith_Swapped(name, prefix) ==
    /\ Len(name) <= Len(prefix)
    /\ SubSeq(prefix, 1, Len(name)) = name

StartsWith(name, prefix) ==
    /\ Len(prefix) <= Len(name)
    /\ SubSeq(name, 1, Len(prefix)) = prefix

(***************************************************************************)
(* dict: the empty dict, dict.update                                       *)
(***************************************************************************)
EmptyDict == <<>>

\* a key that both mappings hold is dropped instead of overwritten
DictUpdate_DropsCollisions(d, other) ==
    [k \in ((DOMAIN d) \cup (DOMAIN other)) \ ((DOMAIN d) \cap (DOMAIN other)) |->
        IF k \in DOMAIN other THEN other[k] ELSE d[k]]

DictUpdate(d, other) ==
    [k \in (DOMAIN d) \cup (DOMAIN other) |->
        IF k \in DOMAIN other THEN other[k] ELSE d[k]]

(***************************************************************************)
(* AgentTask.__init__                                                      *)
(* agent_class stands for the unit of work: what agent.execute does        *)
(* (outcome: "returns", "raises" or "either") and the Result it returns.   *)
(* validation_fn is "none" or the name of a validator.                       *)
(***************************************************************************)
AgentTask(agent_name, agent_class, context, dependencies, priority, max_iterations, validation_fn) ==
    [agent_name |-> agent_name,
     agent_class |-> agent_class,
     context |-> context,
     dependencies |-> dependencies,
     priority |-> priority,
     max_iterations |-> max_iterations,
     validation_fn |-> validation_fn,
     status |-> PENDING,
     result |-> None,
     errors |-> <<>>,
     iteration_count |-> 0]

\* A Result {"output": {...}}; ids abstracts the entity IDs its text references
Result(output, ids) == [output |-> output, ids |-> ids]

Agent(outcome, result) == [outcome |-> outcome, result |-> result]

(***************************************************************************)
(* CentralManager._get_ready_tasks                                         *)
(***************************************************************************)
\* the wildcard branch left out: every entry is looked up as an exact name
DependencyMet_NoWildcard(dep_name, completed) == dep_name \in completed

\* one dependency entry against the keys of self.completed_tasks
DependencyMet(dep_name, completed) ==
    IF EndsWithStar(dep_name)
    THEN \E completed_name \in completed :
            StartsWith(completed_name, DropLast(dep_name))
    ELSE dep_name \in completed

\* only the last dependency entry decides
DependenciesMet_LastOnly(task, completed) ==
    \/ task.dependencies = <<>>
    \/ DependencyMet(task.dependencies[Len(task.dependencies)], completed)

DependenciesMet(task, completed) ==
    \A i \in 1..Len(task.dependencies) :
        DependencyMet(task.dependencies[i], completed)

\* the indices, in the order of self.tasks, of the tasks appended to `ready`
ReadyUnsorted(ts, completed) ==
    LET Keep(i) == ts[i].status # COMPLETED /\ DependenciesMet(ts[i], completed)
    IN  SelectSeq([i \in 1..Len(ts) |-> i], Keep)

RECURSIVE SortByPriority(_, _)
\* the ready list is left in discovery order
SortByPriority_Unsorted(ts, idxs) == idxs

\* list.sort(key=lambda t: t.priority, reverse=True): stable, descending
SortByPriority(ts, idxs) ==
    IF idxs = <<>> THEN <<>>
    ELSE LET top == CHOOSE p \in 1..Len(idxs) :
                      /\ \A q \in 1..Len(idxs) :
                            ts[idxs[q]].priority <= ts[idxs[p]].priority
                      /\ \A q \in 1..(p - 1) :
                            ts[idxs[q]].priority < ts[idxs[p]].priority
             rest == [q \in 1..(Len(idxs) - 1) |->
                        IF q < top THEN idxs[q] ELSE idxs[q + 1]]
         IN  <<idxs[top]>> \o SortByPriority(ts, rest)

GetReadyTasks(ts, completed) ==
    SortByPriority(ts, ReadyUnsorted(ts, completed))

(***************************************************************************)
(* CentralManager._check_needs_revision and the reset of execute_plan      *)
(***************************************************************************)
Retryable(task) ==
    task.status = FAILED /\ task.iteration_count < task.max_iterations

CheckNeedsRevision(ts) == \E i \in 1..Len(ts) : Retryable(ts[i])

\* the reset leaves the error messages of the failed attempt in place
ResetForRetry_KeepsErrors(ts) ==
    [i \in 1..Len(ts) |->
        IF Retryable(ts[i])
        THEN [ts[i] EXCEPT !.status = PENDING]
        ELSE ts[i]]

\* lines 175-180: the Failed tasks with attempts left go back to Pending
ResetForRetry(ts) ==
    [i \in 1..Len(ts) |->
        IF Retryable(ts[i])
        THEN [ts[i] EXCEPT !.status = PENDING, !.errors = <<>>]
        ELSE ts[i]]

AllCompleted(ts) == \A i \in 1..Len(ts) : ts[i].status = COMPLETED

TaskIndex(ts, name) == CHOOSE i \in 1..Len(ts) : ts[i].agent_name = name

(***************************************************************************)
(* CentralManager._update_dependent_contexts                               *)
(***************************************************************************)
\* wildcard entries are not looked at: only an exact name makes a dependent
DependsOn_ExactOnly(task, completed_name) ==
    \E i \in 1..Len(task.dependencies) :
        task.dependencies[i] = completed_name

DependsOn(task, completed_name) ==
    \E i \in 1..Len(task.dependencies) :
        LET dep_name == task.dependencies[i]
        IN  IF EndsWithStar(dep_name)
            THEN StartsWith(completed_name, DropLast(dep_name))
            ELSE dep_name = completed_name

\* ts already holds the completed task c with its result stored
UpdateDependentContexts(ts, c) ==
    [i \in 1..Len(ts) |->
        IF DependsOn(ts[i], ts[c].agent_name) /\ ts[c].result # None
        THEN [ts[i] EXCEPT !.context = DictUpdate(@, ts[c].result[1].output)]
        ELSE ts[i]]

(***************************************************************************)
(* CentralManager._validate_entity_ids and the tasks' validation_fn        *)
(***************************************************************************)
\* result.ids tells what the ID patterns find in str(result): nothing, only
\* IDs of the registry, an ID the registry lacks, or a placeholder (char_id1)
ValidateEntityIds(result) ==
    IF result.ids \in {"unregistered", "placeholder"}
    THEN [valid |-> FALSE, message |-> "Invalid or placeholder entity IDs found"]
    ELSE [valid |-> TRUE, message |-> "Entity ID validation failed"]

\* context.get("entity_registry") is truthy
HasRegistry(context) ==
    "entity_registry" \in DOMAIN context /\ context["entity_registry"] # 0

\* the name test that guards the entity ID validation
ValidatesEntityIds(agent_name) ==
    \/ agent_name = <<"outline_architect">>
    \/ StartsWith(agent_name, <<"scene_expansion_">>)

DictGet(d, key, default) == IF key \in DOMAIN d THEN d[key] ELSE default

ValidationFn(fn, result) ==
    CASE fn = "rejects" ->
            [valid |-> FALSE, message |-> "rejected"]
      [] fn = "theme_guardian" ->
            [valid |-> DictGet(result.output, "thematic_inconsistencies", 0) = 0,
             message |-> IF DictGet(result.output, "thematic_inconsistencies", 0) # 0
                         THEN "Thematic inconsistencies found" ELSE "OK"]
      [] fn = "timeline_manager" ->
            [valid |-> DictGet(result.output, "is_valid", 1) # 0,
             message |-> "Timeline violations"]
      [] OTHER ->
            [valid |-> TRUE, message |-> "OK"]

(***************************************************************************)
(* CentralManager._execute_task, after agent.execute returned or raised    *)
(***************************************************************************)
\* what awaiting agent.execute can do
Outcomes(agent_class) ==
    IF agent_class.outcome = "either" THEN {"returns", "raises"}
    ELSE {agent_class.outcome}

FailTask(ts, i, message) ==
    [ts EXCEPT ![i].status = FAILED, ![i].errors = Append(@, message)]

\* the task's validation_fn is never asked
AttemptFailure_NoValidator(task, outcome) ==
    LET result == task.agent_class.result
    IN  IF outcome = "raises" THEN Some("exception")
        ELSE IF /\ HasRegistry(task.context)
                /\ ValidatesEntityIds(task.agent_name)
                /\ ~ValidateEntityIds(result).valid
        THEN Some(ValidateEntityIds(result).message)
        ELSE None

\* the attempt fails: by exception, by entity ID validation or by validation_fn
AttemptFailure(task, outcome) ==
    LET result == task.agent_class.result
    IN  IF outcome = "raises" THEN Some("exception")
        ELSE IF /\ HasRegistry(task.context)
                /\ ValidatesEntityIds(task.agent_name)
                /\ ~ValidateEntityIds(result).valid
        THEN Some(ValidateEntityIds(result).message)
        ELSE IF task.validation_fn # "none"
                /\ ~ValidationFn(task.validation_fn, result).valid
        THEN Some(ValidationFn(task.validation_fn, result).message)
        ELSE None

\* the result is stored but the dependents' contexts are not updated
StoreResult_NoPropagation(ts, i) ==
    [ts EXCEPT ![i].result = Some(ts[i].agent_class.result),
               ![i].status = COMPLETED]

StoreResult(ts, i) ==
    UpdateDependentContexts(
        [ts EXCEPT ![i].result = Some(ts[i].agent_class.result),
                   ![i].status = COMPLETED], i)

(***************************************************************************)
(* The plans submitted to execute_plan                                     *)
(***************************************************************************)
N_A == <<"A">>
N_B == <<"B">>
N_C == <<"C">>
N_X == <<"X">>
N_scene_1 == <<"scene_", "1">>
N_scene_2 == <<"scene_", "2">>
N_scene_any == <<"scene_", "*">>
N_missing == <<"missing">>

\* the Result of the n-th agent of a plan: it overwrites "shared", adds "k<n>"
OutputOf(n) == ("shared" :> n) @@ (<<"k1", "k2", "k3", "k4", "k5">>[n] :> 1)

PlainAgent(outcome, n) == Agent(outcome, Result(OutputOf(n), "none"))

PlainContext == ("shared" :> 0)

\* spec.md section 8, first scenario: A, B (on A), C (on scene_*), scene_1 and
\* scene_2 (on B)
ScenarioPlan(outcome) ==
    << AgentTask(N_A, PlainAgent(outcome, 1), PlainContext, <<>>, 10,
                 DefaultMaxIterations, "none"),
       AgentTask(N_B, PlainAgent(outcome, 2), PlainContext, <<N_A>>, 0,
                 DefaultMaxIterations, "none"),
       AgentTask(N_C, PlainAgent(outcome, 3), PlainContext, <<N_scene_any>>, 0,
                 DefaultMaxIterations, "none"),
       AgentTask(N_scene_1, PlainAgent(outcome, 4), PlainContext, <<N_B>>, 0,
                 DefaultMaxIterations, "none"),
       AgentTask(N_scene_2, PlainAgent(outcome, 5), PlainContext, <<N_B>>, 0,
                 DefaultMaxIterations, "none") >>

\* spec.md section 8, second scenario: the single task X
RetryPlan(outcome, max_iterations) ==
    << AgentTask(N_X, PlainAgent(outcome, 1), PlainContext, <<>>, 0,
                 max_iterations, "none") >>

\* two tasks that wait for each other
CyclePlan ==
    << AgentTask(N_A, PlainAgent("either", 1), PlainContext, <<N_B>>, 0,
                 DefaultMaxIterations, "none"),
       AgentTask(N_B, PlainAgent("either", 2), PlainContext, <<N_A>>, 0,
                 DefaultMaxIterations, "none") >>

\* three tasks with every combination of a few dependency lists
FanPlan(deps1, deps2, deps3, priorities, max_iterations) ==
    << AgentTask(N_scene_1, PlainAgent("either", 1), PlainContext, deps1,
                 priorities[1], max_iterations, "none"),
       AgentTask(N_scene_2, PlainAgent("either", 2), PlainContext, deps2,
                 priorities[2], max_iterations, "none"),
       AgentTask(N_C, PlainAgent("either", 3), PlainContext, deps3,
                 priorities[3], max_iterations, "none") >>

FanPlans ==
    { FanPlan(d1, d2, d3, p, m) :
        d1 \in {<<>>, <<N_C>>},
        d2 \in {<<>>, <<N_scene_1>>, <<N_missing>>},
        d3 \in {<<>>, <<N_scene_1>>, <<N_scene_1, N_scene_2>>,
                <<N_scene_any>>, <<N_scene_any, N_scene_2>>},
        p \in {<<0, 0, 0>>, <<0, 1, 2>>, <<1, 0, 1>>},
        m \in 1..MaxTaskIterations }

N_test_agent == <<"test_agent">>
N_D == <<"D">>

\* a task whose agent returns a result that references entity IDs, with or
\* without an entity registry in its context, and a task D that waits for it
EntityPlan(agent_name, ids, registry) ==
    << AgentTask(agent_name, Agent("returns", Result(OutputOf(1), ids)),
                 PlainContext @@ ("entity_registry" :> registry), <<>>, 0,
                 DefaultMaxIterations, "none"),
       AgentTask(N_D, PlainAgent("returns", 2), PlainContext, <<agent_name>>,
                 0, DefaultMaxIterations, "none") >>

EntityPlans ==
    { EntityPlan(n, ids, r) :
        n \in {N_test_agent, <<"outline_architect">>,
               <<"scene_expansion_", "arc_0">>},
        ids \in {"none", "registered", "unregistered", "placeholder"},
        r \in {0, 1} }

\* a task with a validation_fn, whose agent returns, and a task D that waits
\* for it
ValidatorPlan(validation_fn, max_iterations) ==
    << AgentTask(N_X, PlainAgent("returns", 1), PlainContext, <<>>, 0,
                 max_iterations, validation_fn),
       AgentTask(N_D, PlainAgent("returns", 2), PlainContext, <<N_X>>, 0,
                 DefaultMaxIterations, "none") >>

ValidatorPlans ==
    { ValidatorPlan(fn, m) : fn \in {"rejects", "accepts"},
                             m \in 1..(MaxTaskIterations + 1) }

\* tasks with the names of the planning loop's validation and proposal tasks
\* whose agents return an empty output or raise
EmptyOutputPlan ==
    << AgentTask(<<"theme_guardian">>, Agent("either", Result(EmptyDict, "none")),
                 PlainContext, <<>>, 0, 1, "none"),
       AgentTask(<<"pacing_agent">>, Agent("either", Result(EmptyDict, "none")),
                 PlainContext, <<>>, 0, 1, "none"),
       AgentTask(<<"idea_generator">>, Agent("either", Result(EmptyDict, "none")),
                 PlainContext, <<>>, 0, 1, "none") >>

N_chain(k) == <<"chain_", <<"1", "2", "3", "4", "5", "6", "7">>[k]>>

\* a chain of tasks that all succeed: each waits for the one before it
ChainPlan(depth) ==
    [k \in 1..depth |->
        AgentTask(N_chain(k), PlainAgent("returns", 1), PlainContext,
                  IF k = 1 THEN <<>> ELSE <<N_chain(k - 1)>>, 0,
                  DefaultMaxIterations, "none")]

\* chains as deep as the default pass budget and one deeper
ChainPlans ==
    {ChainPlan(depth) : depth \in {DefaultMaxGlobalIterations,
                                   DefaultMaxGlobalIterations + 1}}

Plans ==
    {ScenarioPlan(o) : o \in {"returns", "either"}}
    \cup {RetryPlan(o, m) : o \in {"returns", "raises", "either"},
                            m \in 1..(MaxTaskIterations + 1)}
    \cup {CyclePlan}
    \cup FanPlans
    \cup EntityPlans
    \cup ValidatorPlans
    \cup {EmptyOutputPlan}
    \cup ChainPlans

(***************************************************************************)
(* PlanningLoop: the quality gates                                         *)
(***************************************************************************)
ENTITY_COVERAGE == "entity_coverage"
ARC_STRUCTURE == "arc_structure"
SCENE_QUALITY == "scene_quality"
TIMELINE_CONSISTENCY == "timeline_consistency"
PACING == "pacing"
THEMATIC_COHERENCE == "thematic_coherence"

QualityGate ==
    {ENTITY_COVERAGE, ARC_STRUCTURE, SCENE_QUALITY, TIMELINE_CONSISTENCY,
     PACING, THEMATIC_COHERENCE}

\* config.get("quality_gates", {}).get("coverage_threshold", 70.0)
DefaultCoverageThreshold == 70

\* the `data` handed to a gate: a dict, a list or something else (isinstance)
DictData(d) == [type |-> "dict", d |-> d, items |-> <<>>]

ListData(items) == [type |-> "list", d |-> EmptyDict, items |-> items]

OtherData == [type |-> "other", d |-> EmptyDict, items |-> <<>>]

IsDict(data) == data.type = "dict"

IsList(data) == data.type = "list"

\* {"pass": ..., "message": ...}; n is the number the message text embeds
GateResult(pass, text, n) ==
    [pass |-> pass, message |-> [text |-> text, n |-> n]]

\* lines 95-98
entity_coverage(data) ==
    LET pct == IF IsDict(data) THEN DictGet(data.d, "coverage_percentage", 0)
               ELSE 0
        threshold == DefaultCoverageThreshold
    IN  GateResult(pct >= threshold, "Coverage % (threshold %)", pct)

\* lines 100-104
arc_structure(data) ==
    LET arcs == IF IsDict(data) THEN DictGet(data.d, "arcs", <<>>) ELSE <<>>
        timeline == IF IsDict(data) THEN DictGet(data.d, "timeline", <<>>)
                    ELSE <<>>
        ok == Len(arcs) > 0 /\ (timeline = <<>> \/ Len(timeline) = Len(arcs))
    IN  GateResult(ok,
                   IF ok THEN "Arcs non-empty and timeline consistent"
                   ELSE "Arc structure invalid", 0)

\* lines 108-113: the scenes of a list; an item without "scenes" is a scene
RECURSIVE ScenesOfList(_)
ScenesOfList(items) ==
    IF items = <<>> THEN <<>>
    ELSE LET item == Head(items)
         IN  (IF "scenes" \in DOMAIN item THEN item.scenes ELSE <<item>>)
             \o ScenesOfList(Tail(items))

\* lines 114-117: the scenes of the arcs of data["expanded_arcs"]
RECURSIVE ScenesOfArcs(_)
ScenesOfArcs(expanded) ==
    IF expanded = <<>> THEN <<>>
    ELSE DictGet(Head(expanded), "scenes", <<>>) \o ScenesOfArcs(Tail(expanded))

\* not scene.get(key)
Lacks(scene, key) == DictGet(scene, key, 0) = 0

\* lines 106-122
scene_quality(data) ==
    LET scenes == IF IsList(data) THEN ScenesOfList(data.items)
                  ELSE IF IsDict(data)
                       THEN ScenesOfArcs(DictGet(data.d, "expanded_arcs", <<>>))
                       ELSE <<>>
    IN  IF \E i \in 1..Len(scenes) :
              \/ Lacks(scenes[i], "goal")
              \/ Lacks(scenes[i], "conflict")
              \/ Lacks(scenes[i], "outcome")
        THEN GateResult(FALSE, "Some scenes missing goal/conflict/outcome", 0)
        ELSE GateResult(TRUE, "Scene quality OK", 0)

\* data.get(key, data) if isinstance(data, dict) else {}
Nested(data, key) ==
    IF IsDict(data) THEN DictGet(data.d, key, data) ELSE DictData(EmptyDict)

\* lines 124-127
timeline_consistency(data) ==
    LET val == Nested(data, "timeline_validation")
        violations == IF IsDict(val) THEN DictGet(val.d, "violations", <<>>)
                      ELSE <<>>
    IN  GateResult(Len(violations) = 0,
                   IF violations # <<>> THEN "% timeline violation(s)" ELSE "OK",
                   Len(violations))

\* lines 129-132
pacing(data) ==
    LET analysis == Nested(data, "pacing_analysis")
        critical == DictGet(analysis.d, "monotony_flags", <<>>)
                    \o DictGet(analysis.d, "rushed_sequences", <<>>)
    IN  GateResult(Len(critical) = 0,
                   IF critical = <<>> THEN "Pacing OK" ELSE "% pacing issue(s)",
                   Len(critical))

\* lines 134-137
thematic_coherence(data) ==
    LET analysis == Nested(data, "theme_analysis")
        inconsistencies ==
            IF IsDict(analysis)
            THEN DictGet(analysis.d, "thematic_inconsistencies", <<>>)
            ELSE <<>>
    IN  GateResult(Len(inconsistencies) = 0,
                   IF inconsistencies = <<>> THEN "Thematic coherence OK"
                   ELSE "% inconsistency(ies)",
                   Len(inconsistencies))

\* what a registered validator returns; "rejecting" is a caller's validator
\* `async def v(data, registry=None): return {"pass": False, ...}`
Validate(validator, data) ==
    CASE validator = ENTITY_COVERAGE -> entity_coverage(data)
      [] validator = ARC_STRUCTURE -> arc_structure(data)
      [] validator = SCENE_QUALITY -> scene_quality(data)
      [] validator = TIMELINE_CONSISTENCY -> timeline_consistency(data)
      [] validator = PACING -> pacing(data)
      [] validator = THEMATIC_COHERENCE -> thematic_coherence(data)
      [] OTHER -> GateResult(FALSE, "rejected", 0)

\* register_quality_gate(gate, None) leaves a gate without validator
NoValidator == "None"

\* lines 139-144: the registry after __init__
DefaultQualityGates == [gate \in QualityGate |-> gate]

\* the validators a caller registers for a gate
Validators(gate) == {gate, NoValidator, "rejecting"}

\* the default validators take (data, registry), both required
RequiredArguments(validator) == IF validator \in QualityGate THEN 2 ELSE 1

\* the call of line 691 raises: validator(data) lacks an argument, or pacing
\* calls .get on an analysis that is not a dict
ValidatorRaises(validator, data, registry) ==
    \/ registry = 0 /\ RequiredArguments(validator) = 2
    \/ validator = PACING /\ ~IsDict(Nested(data, "pacing_analysis"))

NoMessage == [text |-> "", n |-> 0]

\* the validators keep state: a verdict is the opposite of the previous one
QualityGateCheck_Stateful(gates, gate, data, registry) ==
    LET validator == gates[gate]
        flip(pass) == IF gate_check # None THEN ~gate_check[1].pass ELSE pass
    IN  IF validator = NoValidator
        THEN [gate |-> gate, validator |-> validator, data |-> data,
              registry |-> registry, pass |-> TRUE, message |-> NoMessage]
        ELSE IF ValidatorRaises(validator, data, registry)
        THEN [gate |-> gate, validator |-> validator, data |-> data,
              registry |-> registry, pass |-> TRUE, message |-> NoMessage]
        ELSE [gate |-> gate, validator |-> validator, data |-> data,
              registry |-> registry,
              pass |-> flip(Validate(validator, data).pass),
              message |-> Validate(validator, data).message]

\* a gate without validator is treated as a gate whose validator rejects
QualityGateCheck_FailClosed(gates, gate, data, registry) ==
    LET validator == gates[gate]
    IN  IF validator = NoValidator
        THEN [gate |-> gate, validator |-> validator, data |-> data,
              registry |-> registry, pass |-> FALSE, message |-> NoMessage]
        ELSE IF ValidatorRaises(validator, data, registry)
        THEN [gate |-> gate, validator |-> validator, data |-> data,
              registry |-> registry, pass |-> TRUE, message |-> NoMessage]
        ELSE [gate |-> gate, validator |-> validator, data |-> data,
              registry |-> registry,
              pass |-> Validate(validator, data).pass,
              message |-> Validate(validator, data).message]

\* _check_quality_gate, lines 679-695: the call and what it returns
QualityGateCheck(gates, gate, data, registry) ==
    LET validator == gates[gate]
    IN  IF validator = NoValidator
        THEN [gate |-> gate, validator |-> validator, data |-> data,
              registry |-> registry, pass |-> TRUE, message |-> NoMessage]
        ELSE IF ValidatorRaises(validator, data, registry)
        THEN [gate |-> gate, validator |-> validator, data |-> data,
              registry |-> registry, pass |-> TRUE, message |-> NoMessage]
        ELSE [gate |-> gate, validator |-> validator, data |-> data,
              registry |-> registry,
              pass |-> Validate(validator, data).pass,
              message |-> Validate(validator, data).message]

\* two calls with the same validator and the same arguments
SameCall(c1, c2) ==
    /\ c1.gate = c2.gate
    /\ c1.validator = c2.validator
    /\ c1.registry = c2.registry
    /\ c1.data = c2.data

\* the new value of gate_check: the call, what it returned, and whether the
\* call before it was the same call
RecordCheck(check) ==
    Some([repeated |-> gate_check # None /\ SameCall(gate_check[1], check)]
         @@ check)

\* arc.get("id", f"arc_{idx}") of the idx-th arc (idx from 0)
ArcId(idx) == <<"arc_0", "arc_1", "arc_2", "arc_3", "arc_4", "arc_5">>[idx + 1]

\* the arcs the outline architect returns, each arc given by its id
ArcList(n) == [i \in 1..n |-> ArcId(i - 1)]

\* timelines for n arcs: none, the arcs in order, reversed, other units of
\* the same number, one unit repeated, one entry less, one entry more
Timelines(n) ==
    {<<>>, ArcList(n), ArcList(n + 1)}
    \cup {[i \in 1..n |-> ArcId(n - i)],
          [i \in 1..n |-> ArcId(i)],
          [i \in 1..n |-> ArcId(0)]}
    \cup (IF n > 0 THEN {ArcList(n - 1)} ELSE {})

Scene(goal, conflict, outcome) ==
    [goal |-> goal, conflict |-> conflict, outcome |-> outcome]

Scenes == {Scene(1, 1, 1), Scene(0, 1, 1), Scene(1, 0, 1), Scene(1, 1, 0)}

ExpandedArc(arc_id, scenes) == [arc_id |-> arc_id, scenes |-> scenes]

\* data of no gate's shape
PlainData == {OtherData, ListData(<<>>), DictData(EmptyDict)}

\* the data values handed to _check_quality_gate for a gate
GateData(gate) ==
    PlainData \cup
    CASE gate = ENTITY_COVERAGE ->
            {DictData([coverage_percentage |-> pct]) :
               pct \in {0, DefaultCoverageThreshold - 1,
                        DefaultCoverageThreshold, 100}}
      [] gate = ARC_STRUCTURE ->
            UNION {{DictData([arcs |-> ArcList(n), timeline |-> t]) :
                      t \in Timelines(n)} : n \in 0..MaxArcs}
      [] gate = SCENE_QUALITY ->
            {ListData(<<ExpandedArc("arc_0", <<s>>)>>) : s \in Scenes}
            \cup {ListData(<<ExpandedArc("arc_0", <<Scene(1, 1, 1)>>), s>>) :
                    s \in Scenes}
            \cup {DictData([expanded_arcs |-> <<ExpandedArc("arc_0", <<s>>)>>]) :
                    s \in Scenes}
      [] gate = TIMELINE_CONSISTENCY ->
            {DictData([timeline_validation |-> DictData([violations |-> v])]) :
               v \in {<<>>, <<1>>}}
            \cup {DictData([violations |-> v]) : v \in {<<>>, <<1>>}}
      [] gate = PACING ->
            {DictData([pacing_analysis |->
                         DictData([monotony_flags |-> m,
                                   rushed_sequences |-> r])]) :
               m \in {<<>>, <<1>>}, r \in {<<>>, <<1>>}}
            \cup {DictData([pacing_analysis |-> ListData(<<>>)])}
      [] gate = THEMATIC_COHERENCE ->
            {DictData([theme_analysis |->
                         DictData([thematic_inconsistencies |-> i])]) :
               i \in {<<>>, <<1>>}}
            \cup {DictData([thematic_inconsistencies |-> i]) :
                    i \in {<<>>, <<1>>}}

(***************************************************************************)
(* CentralManager.__init__ (PlanningLoop.__init__ builds the manager)      *)
(***************************************************************************)
Configs ==
    {[max_global_iterations |-> n] :
        n \in (0..MaxConfigIterations) \cup {DefaultMaxGlobalIterations}}

\* before execute_planning_loop is called: phase 0, nothing produced
NoPlanning ==
    [phase |-> 0, agents |-> "returns", arcs |-> 0,
     arc_plan |-> EmptyDict, theme_validation |-> EmptyDict,
     coverage_result |-> EmptyDict, character_plan |-> EmptyDict,
     expanded_arcs |-> {}, refined_outline |-> EmptyDict,
     idea_proposals |-> EmptyDict, outline |-> None,
     gate_failures |-> <<>>]

Init ==
    /\ config \in Configs
    /\ tasks = <<>>
    /\ completed_tasks = {}
    /\ failed_tasks = {}
    /\ iteration = 0
    /\ ready_tasks = <<>>
    /\ ready_pos = 0
    /\ running = 0
    /\ pc = "idle"
    /\ returned = None
    /\ log = <<>>
    /\ completed_at_pass_start = {}
    /\ planning = NoPlanning
    /\ quality_gates = DefaultQualityGates
    /\ gate_check = None

(***************************************************************************)
(* CentralManager.execute_plan                                             *)
(***************************************************************************)
\* lines 114-123: the bookkeeping of the call is rebuilt, iteration = 0
EnterExecutePlan(plan) ==
    /\ tasks' = plan
    /\ completed_tasks' = {}
    /\ failed_tasks' = {}
    /\ iteration' = 0
    /\ ready_tasks' = <<>>
    /\ ready_pos' = 0
    /\ running' = 0
    /\ pc' = "while"
    /\ returned' = None
    /\ log' = <<>>
    /\ completed_at_pass_start' = {}

\* a caller other than the planning loop submits a plan
ExecutePlan ==
    /\ pc \in {"idle", "returned"}
    /\ planning.phase = 0
    /\ \E plan \in Plans : EnterExecutePlan(plan)
    /\ UNCHANGED <<quality_gates, gate_check, config, planning>>

\* the loop condition off by one
WhileCondition_OffByOne(iter, cfg) == iter <= cfg.max_global_iterations

\* line 125: while iteration < max_global_iterations
WhileCondition(iter, cfg) == iter < cfg.max_global_iterations

\* an empty ready list does not leave the loop: the passes go on
PassStart_KeepsLooping ==
    /\ pc = "while"
    /\ WhileCondition(iteration, config)
    /\ iteration' = iteration + 1
    /\ LET ready == GetReadyTasks(tasks, completed_tasks)
       IN  /\ ready_tasks' = ready
           /\ pc' = IF ready = <<>> THEN "while" ELSE "for"
    /\ ready_pos' = 0
    /\ completed_at_pass_start' = completed_tasks
    /\ UNCHANGED <<quality_gates, gate_check, config, tasks, completed_tasks, failed_tasks, running,
                   returned, log, planning>>

\* lines 125-157: the head of a pass; an empty ready list leaves the loop
PassStart ==
    /\ pc = "while"
    /\ WhileCondition(iteration, config)
    /\ iteration' = iteration + 1
    /\ LET ready == GetReadyTasks(tasks, completed_tasks)
       IN  /\ ready_tasks' = ready
           /\ pc' = IF ready = <<>> THEN "collect" ELSE "for"
    /\ ready_pos' = 0
    /\ completed_at_pass_start' = completed_tasks
    /\ UNCHANGED <<quality_gates, gate_check, config, tasks, completed_tasks, failed_tasks, running,
                   returned, log, planning>>

\* line 125: the global pass budget is used up
WhileExit ==
    /\ pc = "while"
    /\ ~WhileCondition(iteration, config)
    /\ pc' = "collect"
    /\ UNCHANGED <<quality_gates, gate_check, config, tasks, completed_tasks, failed_tasks, iteration,
                   ready_tasks, ready_pos, running, returned, log,
                   completed_at_pass_start, planning>>

\* lines 160-164 and 230-248: the next ready task starts, up to the await
ExecuteTaskBegin ==
    /\ pc = "for"
    /\ running = 0
    /\ ready_pos < Len(ready_tasks)
    /\ LET i == ready_tasks[ready_pos + 1]
       IN  IF tasks[i].status = COMPLETED
           THEN /\ ready_pos' = ready_pos + 1
                /\ UNCHANGED <<tasks, running, log>>
           ELSE /\ tasks' = [tasks EXCEPT ![i].status = RUNNING,
                                          ![i].iteration_count = @ + 1]
                /\ running' = i
                /\ log' = Append(log, [pass |-> iteration,
                                       task |-> tasks[i].agent_name])
                /\ UNCHANGED ready_pos
    /\ UNCHANGED <<quality_gates, gate_check, config, completed_tasks, failed_tasks, iteration,
                   ready_tasks, pc, returned, completed_at_pass_start, planning>>

\* lines 248-288: agent.execute returns or raises
ExecuteTaskEnd ==
    /\ pc = "for"
    /\ running # 0
    /\ \E outcome \in Outcomes(tasks[running].agent_class) :
         LET failure == AttemptFailure(tasks[running], outcome)
         IN  IF failure # None
             THEN /\ tasks' = FailTask(tasks, running, failure[1])
                  /\ failed_tasks' = failed_tasks \cup {tasks[running].agent_name}
                  /\ UNCHANGED completed_tasks
             ELSE /\ tasks' = StoreResult(tasks, running)
                  /\ completed_tasks' =
                        completed_tasks \cup {tasks[running].agent_name}
                  /\ UNCHANGED failed_tasks
    /\ running' = 0
    /\ ready_pos' = ready_pos + 1
    /\ UNCHANGED <<quality_gates, gate_check, config, iteration, ready_tasks, pc, returned, log,
                   completed_at_pass_start, planning>>

\* a Failed task ends the run: the loop is left as soon as one task has failed
PassEnd_StopsOnFailure ==
    /\ pc = "for"
    /\ running = 0
    /\ ready_pos = Len(ready_tasks)
    /\ IF AllCompleted(tasks) \/ (\E i \in 1..Len(tasks) : tasks[i].status = FAILED)
       THEN /\ pc' = "collect"
            /\ UNCHANGED tasks
       ELSE /\ pc' = "while"
            /\ tasks' = IF CheckNeedsRevision(tasks)
                        THEN ResetForRetry(tasks) ELSE tasks
    /\ UNCHANGED <<quality_gates, gate_check, config, completed_tasks, failed_tasks, iteration,
                   ready_tasks, ready_pos, running, returned, log,
                   completed_at_pass_start, planning>>

\* lines 166-180: after the for loop
PassEnd ==
    /\ pc = "for"
    /\ running = 0
    /\ ready_pos = Len(ready_tasks)
    /\ IF AllCompleted(tasks)
       THEN /\ pc' = "collect"
            /\ UNCHANGED tasks
       ELSE /\ pc' = "while"
            /\ tasks' = IF CheckNeedsRevision(tasks)
                        THEN ResetForRetry(tasks) ELSE tasks
    /\ UNCHANGED <<quality_gates, gate_check, config, completed_tasks, failed_tasks, iteration,
                   ready_tasks, ready_pos, running, returned, log,
                   completed_at_pass_start, planning>>

\* lines 182-192: the value execute_plan returns
ReturnValue ==
    [results |-> [name \in completed_tasks |->
                     tasks[TaskIndex(tasks, name)].result],
     iteration_count |-> iteration,
     completed |-> Cardinality(completed_tasks),
     failed |-> Cardinality(failed_tasks)]

Return ==
    /\ pc = "collect"
    /\ returned' = Some(ReturnValue)
    /\ pc' = "returned"
    /\ UNCHANGED <<quality_gates, gate_check, config, tasks, completed_tasks, failed_tasks, iteration,
                   ready_tasks, ready_pos, running, log,
                   completed_at_pass_start, planning>>

(***************************************************************************)
(* PlanningLoop: the tasks each phase builds                               *)
(***************************************************************************)
N_synthesis == <<"synthesis">>
N_outline_architect == <<"outline_architect">>
N_theme_guardian == <<"theme_guardian">>
N_theme_guardian_early == <<"theme_guardian", "_early">>
N_coverage_verifier == <<"coverage_verifier">>
N_character_planner == <<"character_planner">>
N_timeline_manager == <<"timeline_manager">>
N_pacing_agent == <<"pacing_agent">>
N_foreshadowing_agent == <<"foreshadowing_agent">>
N_idea_generator == <<"idea_generator">>
N_scene_expansion_any == <<"scene_expansion_", "*">>

N_scene_expansion(arc_id) == <<"scene_expansion_", arc_id>>

\* the agents of a planning run: `agents` is what their execute does and
\* `arcs` the number of arcs (and timeline entries) the outline architect returns
LoopAgent(p, output) == Agent(p.agents, Result(output, "none"))

\* _phase_synthesis_and_planning, lines 279-296
SynthesisTasks(p) ==
    << AgentTask(N_synthesis,
                 LoopAgent(p, [relationships |-> 1, conflicts |-> 1, themes |-> 1]),
                 [entity_registry |-> 1, novel_input |-> 1],
                 <<>>, 10, DefaultMaxIterations, "none"),
       AgentTask(N_outline_architect,
                 LoopAgent(p, [arcs |-> ArcList(p.arcs),
                               timeline |-> ArcList(p.arcs)]),
                 EmptyDict,
                 <<N_synthesis>>, 9, DefaultMaxIterations, "none") >>

\* _phase_theme_validation, lines 328-340
ThemeValidationTasks(p) ==
    << AgentTask(N_theme_guardian_early,
                 LoopAgent(p, [thematic_inconsistencies |-> 0]),
                 [relationships |-> 1, arc_plan |-> 1, entity_registry |-> 1],
                 <<N_outline_architect>>, 8, DefaultMaxIterations, "none") >>

\* _phase_coverage_verification, lines 354-364
CoverageVerificationTasks(p) ==
    << AgentTask(N_coverage_verifier,
                 LoopAgent(p, [coverage_percentage |-> 80]),
                 [entity_registry |-> 1, arc_plan |-> 1],
                 <<>>, 8, DefaultMaxIterations, "none") >>

\* _phase_character_planning, lines 378-389
CharacterPlanningTasks(p) ==
    << AgentTask(N_character_planner,
                 LoopAgent(p, [character_plan |-> 1]),
                 [entity_registry |-> 1, arc_plan |-> 1],
                 <<N_outline_architect>>, 7, DefaultMaxIterations, "none") >>

\* _phase_scene_expansion, lines 405-420: one task per arc of arc_plan
SceneExpansionTasks(p) ==
    [n \in 1..Len(DictGet(p.arc_plan, "arcs", <<>>)) |->
        AgentTask(N_scene_expansion(p.arc_plan.arcs[n]),
                  LoopAgent(p, [scenes |-> <<Scene(1, 1, 1)>>]),
                  [arc |-> 1, entity_registry |-> 1, novel_input |-> 1],
                  <<N_outline_architect>>, 7 - (n - 1),
                  DefaultMaxIterations, "none")]

\* _phase_validation_and_refinement, lines 483-539
ValidationTasks(p) ==
    << AgentTask(N_theme_guardian,
                 LoopAgent(p, [thematic_inconsistencies |-> 0]),
                 [outline |-> 1, relationships |-> 1, arc_plan |-> 1],
                 <<N_outline_architect>>, 6, DefaultMaxIterations,
                 "theme_guardian"),
       AgentTask(N_timeline_manager,
                 LoopAgent(p, [is_valid |-> 1, violations |-> 0]),
                 [outline |-> 1, entity_registry |-> 1, graph_store |-> 1],
                 <<N_scene_expansion_any>>, 5, DefaultMaxIterations,
                 "timeline_manager"),
       AgentTask(N_pacing_agent,
                 LoopAgent(p, [monotony_flags |-> 0, rushed_sequences |-> 0]),
                 [outline |-> 1, arc_plan |-> 1, genre |-> 1],
                 <<N_scene_expansion_any>>, 4, DefaultMaxIterations, "none"),
       AgentTask(N_foreshadowing_agent,
                 LoopAgent(p, [seeds |-> 1]),
                 [outline |-> 1, arc_plan |-> 1],
                 <<N_scene_expansion_any>>, 3, DefaultMaxIterations, "none") >>

\* _phase_idea_generation, lines 599-613
IdeaGenerationTasks(p) ==
    << AgentTask(N_idea_generator,
                 LoopAgent(p, [ideas |-> <<1>>]),
                 [outline |-> 1, entity_registry |-> 1, arc_plan |-> 1,
                  validation_results |-> 1, user_constraints |-> 0],
                 <<N_timeline_manager, N_pacing_agent, N_foreshadowing_agent,
                   N_theme_guardian>>,
                 2, DefaultMaxIterations, "none") >>

\* the phases of execute_planning_loop that call execute_plan, in order
PhaseTasks(p) ==
    CASE p.phase = 1 -> SynthesisTasks(p)
      [] p.phase = 2 -> ThemeValidationTasks(p)
      [] p.phase = 3 -> CoverageVerificationTasks(p)
      [] p.phase = 4 -> CharacterPlanningTasks(p)
      [] p.phase = 5 -> SceneExpansionTasks(p)
      [] p.phase = 6 -> ValidationTasks(p)
      [] p.phase = 7 -> IdeaGenerationTasks(p)

(***************************************************************************)
(* PlanningLoop: what each phase makes of the value execute_plan returned  *)
(***************************************************************************)
\* result["results"].get(name, {}).get("output", {})
ResultOutput(ret, name) ==
    IF name \in DOMAIN ret.results THEN ret.results[name][1].output
    ELSE EmptyDict

\* lines 302-311
ArcPlan(ret) ==
    LET synthesis_output == ResultOutput(ret, N_synthesis)
        architect_output == ResultOutput(ret, N_outline_architect)
    IN  [relationships |-> DictGet(synthesis_output, "relationships", 0),
         conflicts |-> DictGet(synthesis_output, "conflicts", 0),
         themes |-> DictGet(synthesis_output, "themes", 0),
         arcs |-> DictGet(architect_output, "arcs", <<>>),
         timeline |-> DictGet(architect_output, "timeline", <<>>)]

\* lines 424-434: one entry per result whose name starts with scene_expansion_
ExpandedArcs(ret) ==
    { [arc_id |-> name[2],
       scenes |-> DictGet(ret.results[name][1].output, "scenes", <<>>)] :
        name \in {n \in DOMAIN ret.results :
                    StartsWith(n, <<"scene_expansion_">>)} }

\* lines 544-556
RefinedOutline(p, ret) ==
    [arc_plan |-> p.arc_plan,
     expanded_arcs |-> p.expanded_arcs,
     refinements |->
        [theme_analysis |-> ResultOutput(ret, N_theme_guardian),
         timeline_validation |-> ResultOutput(ret, N_timeline_manager),
         pacing_analysis |-> ResultOutput(ret, N_pacing_agent),
         foreshadowing_analysis |-> ResultOutput(ret, N_foreshadowing_agent)]]

PhaseCombine(p, ret) ==
    CASE p.phase = 1 -> [p EXCEPT !.arc_plan = ArcPlan(ret)]
      [] p.phase = 2 ->
            [p EXCEPT !.theme_validation = ResultOutput(ret, N_theme_guardian_early)]
      [] p.phase = 3 ->
            [p EXCEPT !.coverage_result = ResultOutput(ret, N_coverage_verifier)]
      [] p.phase = 4 ->
            [p EXCEPT !.character_plan = ResultOutput(ret, N_character_planner)]
      [] p.phase = 5 -> [p EXCEPT !.expanded_arcs = ExpandedArcs(ret)]
      [] p.phase = 6 -> [p EXCEPT !.refined_outline = RefinedOutline(p, ret)]
      [] p.phase = 7 ->
            [p EXCEPT !.idea_proposals = ResultOutput(ret, N_idea_generator)]

\* _phase_consolidation, lines 647-669: the NovelOutline
Outline(p) ==
    [status |-> "completed",
     relationships |->
        [arcs |-> DictGet(p.arc_plan, "arcs", <<>>),
         timeline |-> DictGet(p.arc_plan, "timeline", <<>>),
         themes |-> DictGet(p.arc_plan, "themes", 0)],
     metadata |->
        [validation_results |-> DictGet(p.refined_outline, "refinements", EmptyDict),
         idea_proposals |-> DictGet(p.idea_proposals, "ideas", <<>>),
         character_plan |-> EmptyDict]]

(***************************************************************************)
(* PlanningLoop.execute_planning_loop                                      *)
(***************************************************************************)
\* the call: the agents of the run are fixed, phase 1 is next
StartPlanningLoop ==
    /\ pc = "idle"
    /\ planning.phase = 0
    /\ \E agents \in {"returns", "either"}, arcs \in 0..MaxArcs :
         planning' = [NoPlanning EXCEPT !.phase = 1, !.agents = agents,
                                        !.arcs = arcs]
    /\ UNCHANGED <<quality_gates, gate_check, config, tasks, completed_tasks, failed_tasks, iteration,
                   ready_tasks, ready_pos, running, pc, returned, log,
                   completed_at_pass_start>>

\* a phase builds its tasks and awaits central_manager.execute_plan(tasks)
PhaseBegin ==
    /\ pc = "idle"
    /\ planning.phase \in 1..7
    /\ EnterExecutePlan(PhaseTasks(planning))
    /\ UNCHANGED <<quality_gates, gate_check, config, planning>>

\* the elements of a set in some order
RECURSIVE SeqOf(_)
SeqOf(S) ==
    IF S = {} THEN <<>>
    ELSE LET x == CHOOSE y \in S : TRUE IN <<x>> \o SeqOf(S \ {x})

\* lines 173-175 and 195-197: the gate checked after a phase, if any, on the
\* phase outputs q; the registry is the EntityRegistry of the run
GateAfterPhase(q, phase) ==
    CASE phase = 2 ->
            Some(QualityGateCheck(quality_gates, ARC_STRUCTURE,
                                  DictData(q.arc_plan), 1))
      [] phase = 5 ->
            Some(QualityGateCheck(quality_gates, SCENE_QUALITY,
                                  ListData(SeqOf(q.expanded_arcs)), 1))
      [] OTHER -> None

\* a failing gate ends the run: no later phase, no outline
PhaseEnd_GateAborts ==
    /\ pc = "returned"
    /\ planning.phase \in 1..7
    /\ LET q == PhaseCombine(planning, returned[1])
           check == GateAfterPhase(q, planning.phase)
       IN  IF check # None /\ ~check[1].pass
           THEN /\ planning' = [q EXCEPT !.phase = 9,
                                         !.gate_failures = Append(@, check[1].gate)]
                /\ gate_check' = RecordCheck(check[1])
                /\ pc' = "planned"
           ELSE /\ planning' = [q EXCEPT !.phase = @ + 1]
                /\ gate_check' = IF check # None THEN RecordCheck(check[1])
                             ELSE gate_check
                /\ pc' = "idle"
    /\ UNCHANGED <<quality_gates, config, tasks, completed_tasks, failed_tasks,
                   iteration, ready_tasks, ready_pos, running, returned, log,
                   completed_at_pass_start>>

\* execute_plan returned: the phase combines the results and the gate that
\* follows the phase is checked; a failing gate is logged ("..., but
\* continuing") and the next phase follows
PhaseEnd ==
    /\ pc = "returned"
    /\ planning.phase \in 1..7
    /\ LET q == PhaseCombine(planning, returned[1])
           check == GateAfterPhase(q, planning.phase)
       IN  /\ planning' =
                [q EXCEPT !.phase = @ + 1,
                          !.gate_failures =
                              IF check # None /\ ~check[1].pass
                              THEN Append(@, check[1].gate) ELSE @]
           /\ gate_check' = IF check # None THEN RecordCheck(check[1])
                             ELSE gate_check
    /\ pc' = "idle"
    /\ UNCHANGED <<quality_gates, config, tasks, completed_tasks, failed_tasks,
                   iteration, ready_tasks, ready_pos, running, returned, log,
                   completed_at_pass_start>>

\* lines 222-267: _phase_consolidation builds the outline that is returned
Consolidation ==
    /\ pc = "idle"
    /\ planning.phase = 8
    /\ planning' = [planning EXCEPT !.phase = 9, !.outline = Some(Outline(planning))]
    /\ pc' = "planned"
    /\ UNCHANGED <<quality_gates, gate_check, config, tasks, completed_tasks, failed_tasks, iteration,
                   ready_tasks, ready_pos, running, returned, log,
                   completed_at_pass_start>>

(***************************************************************************)
(* PlanningLoop.register_quality_gate and _check_quality_gate              *)
(***************************************************************************)
\* the gates whose validator is not the one __init__ registered
Overridden(gates) == {gate \in QualityGate : gates[gate] # gate}

\* lines 89-91
RegisterQualityGate ==
    /\ pc = "idle"
    /\ planning.phase = 0
    /\ \E gate \in QualityGate : \E validator \in Validators(gate) :
         /\ quality_gates' = [quality_gates EXCEPT ![gate] = validator]
         /\ Cardinality(Overridden(quality_gates')) <= MaxRegistrations
    /\ UNCHANGED <<gate_check, config, tasks, completed_tasks, failed_tasks,
                   iteration, ready_tasks, ready_pos, running, pc, returned,
                   log, completed_at_pass_start, planning>>

\* lines 679-695, called with any gate, data and registry
CheckQualityGate ==
    /\ pc = "idle"
    /\ planning.phase = 0
    /\ \E gate \in QualityGate, registry \in {0, 1} : \E data \in GateData(gate) :
         gate_check' = RecordCheck(QualityGateCheck(quality_gates, gate, data, registry))
    /\ UNCHANGED <<quality_gates, config, tasks, completed_tasks, failed_tasks,
                   iteration, ready_tasks, ready_pos, running, pc, returned,
                   log, completed_at_pass_start, planning>>

Next ==
    \/ ExecutePlan
    \/ StartPlanningLoop
    \/ PhaseBegin
    \/ PhaseEnd
    \/ Consolidation
    \/ PassStart
    \/ WhileExit
    \/ ExecuteTaskBegin
    \/ ExecuteTaskEnd
    \/ PassEnd
    \/ Return

Spec == Init /\ [][Next]_vars

\* a PlanningLoop whose gates are registered and checked one by one
GateNext ==
    \/ RegisterQualityGate
    \/ CheckQualityGate

\* the gates read nothing of the CentralManager's configuration
GateInit == Init /\ config.max_global_iterations = DefaultMaxGlobalIterations

GateSpec == GateInit /\ [][GateNext]_vars

\* a PlanningLoop whose gates a caller overrides before it runs the loop
LoopNext ==
    \/ RegisterQualityGate
    \/ StartPlanningLoop
    \/ PhaseBegin
    \/ PhaseEnd
    \/ Consolidation
    \/ PassStart
    \/ WhileExit
    \/ ExecuteTaskBegin
    \/ ExecuteTaskEnd
    \/ PassEnd
    \/ Return

\* execute_planning_loop is one coroutine: its next step is always taken
LoopSpec ==
    /\ Init
    /\ [][LoopNext]_vars
    /\ WF_vars(StartPlanningLoop)
    /\ WF_vars(PhaseBegin)
    /\ WF_vars(PhaseEnd)
    /\ WF_vars(Consolidation)
    /\ WF_vars(PassStart)
    /\ WF_vars(WhileExit)
    /\ WF_vars(ExecuteTaskBegin)
    /\ WF_vars(ExecuteTaskEnd)
    /\ WF_vars(PassEnd)
    /\ WF_vars(Return)

\* execute_plan is one coroutine that nothing preempts: whenever its units of
\* work return or raise, its next step is taken
FairSpec ==
    /\ Spec
    /\ WF_vars(PassStart)
    /\ WF_vars(WhileExit)
    /\ WF_vars(ExecuteTaskBegin)
    /\ WF_vars(ExecuteTaskEnd)
    /\ WF_vars(PassEnd)
    /\ WF_vars(Return)

(***************************************************************************)
(* Vocabulary of the properties                                            *)
(***************************************************************************)
TaskIndices == 1..Len(tasks)

InExecutePlan == pc \in {"while", "for", "collect"}

\* the names whose unit of work was invoked in pass n
ExecutedInPass(n) == {log[k].task : k \in {j \in 1..Len(log) : log[j].pass = n}}

\* the for loop of the current pass has visited every ready task
PassFinished ==
    /\ iteration >= 1
    /\ \/ pc \in {"while", "collect", "returned"}
       \/ pc = "for" /\ running = 0 /\ ready_pos = Len(ready_tasks)

\* a dependency entry as section 4.1 reads it, against a set of completed names
IsWildcard(dep) == dep[Len(dep)] = "*"

Satisfied(dep, names) ==
    IF IsWildcard(dep)
    THEN \E n \in names :
            /\ Len(n) >= Len(dep) - 1
            /\ \A k \in 1..(Len(dep) - 1) : n[k] = dep[k]
    ELSE dep \in names

AllSatisfied(i, names) ==
    \A d \in 1..Len(tasks[i].dependencies) :
        Satisfied(tasks[i].dependencies[d], names)

(***************************************************************************)
(* C1                                                                      *)
(***************************************************************************)
\* C1: in every reachable state of execute_plan, every task has
\* iteration_count <= max_iterations.
C1_RetryBound ==
    \A i \in TaskIndices : tasks[i].iteration_count <= tasks[i].max_iterations

(***************************************************************************)
(* C2                                                                      *)
(***************************************************************************)
\* C2: in a planning run under the default configuration whose units of work
\* all succeed, when the execute_plan call of a phase that depends on an
\* earlier phase returns, each of its tasks was executed and is Completed.
C2_LaterPhasesComplete ==
    ( /\ planning.phase \in {2, 4, 5, 6, 7}
      /\ planning.agents = "returns"
      /\ config.max_global_iterations = DefaultMaxGlobalIterations
      /\ pc = "returned" )
    => \A i \in TaskIndices :
          /\ tasks[i].status = COMPLETED
          /\ tasks[i].iteration_count >= 1

(***************************************************************************)
(* C3                                                                      *)
(***************************************************************************)
\* the tasks section 4.1 calls ready at the start of the current pass
ShouldRun ==
    { tasks[i].agent_name : i \in
        { j \in TaskIndices :
            /\ tasks[j].agent_name \notin completed_at_pass_start
            /\ AllSatisfied(j, completed_at_pass_start) } }

\* C3: in every pass the tasks executed are only tasks that were not Completed
\* and had every dependency satisfied by the completed set of the start of the
\* pass, and when the pass is over they are exactly those tasks.
C3_ExecutedExactlyReady ==
    /\ (InExecutePlan /\ iteration >= 1)
          => ExecutedInPass(iteration) \subseteq ShouldRun
    /\ PassFinished => ExecutedInPass(iteration) = ShouldRun

\* a pass is over in which a task completed and a dependent of it, satisfied
\* only now, did not run
C3_Witness ==
    /\ pc = "for"
    /\ PassFinished
    /\ \E i \in TaskIndices :
          /\ tasks[i].agent_name \notin ExecutedInPass(iteration)
          /\ tasks[i].status = PENDING
          /\ AllSatisfied(i, completed_tasks)
          /\ ~AllSatisfied(i, completed_at_pass_start)

(***************************************************************************)
(* C4                                                                      *)
(***************************************************************************)
\* the wildcard entries of task i that some name of the set matches
MatchedWildcards(i, names) ==
    { d \in 1..Len(tasks[i].dependencies) :
        /\ IsWildcard(tasks[i].dependencies[d])
        /\ Satisfied(tasks[i].dependencies[d], names) }

\* C4: one completed task with the prefix satisfies a wildcard dependency: a
\* task that is not Completed, has a wildcard entry matched by a name completed
\* before the pass started and no other unmet entry, is executed in that pass.
C4_WildcardAnySuffices ==
    PassFinished =>
        \A i \in TaskIndices :
            ( /\ tasks[i].agent_name \notin completed_at_pass_start
              /\ MatchedWildcards(i, completed_at_pass_start) # {}
              /\ AllSatisfied(i, completed_at_pass_start) )
            => tasks[i].agent_name \in ExecutedInPass(iteration)

\* the plan's tasks, other than i, that entry d of task i matches by prefix
PrefixTasks(i, d) ==
    { j \in TaskIndices \ {i} :
        Satisfied(tasks[i].dependencies[d], {tasks[j].agent_name}) }

\* a task ran on a wildcard dependency in a pass at whose start, and at whose
\* end, another task with the prefix was not Completed
C4_Witness ==
    /\ pc = "for"
    /\ PassFinished
    /\ \E i \in TaskIndices :
          /\ tasks[i].agent_name \in ExecutedInPass(iteration)
          /\ \E d \in MatchedWildcards(i, completed_at_pass_start) :
               \E j \in PrefixTasks(i, d) :
                  /\ tasks[j].status \in {PENDING, FAILED}
                  /\ tasks[j].agent_name \notin completed_tasks

(***************************************************************************)
(* C5                                                                      *)
(***************************************************************************)
\* C5: while the unit of work of a task with a wildcard dependency runs, every
\* task of the plan whose name starts with the prefix is Completed.
C5_WildcardWaitsForAll ==
    (pc = "for" /\ running # 0) =>
        \A d \in 1..Len(tasks[running].dependencies) :
            IsWildcard(tasks[running].dependencies[d]) =>
                \A j \in PrefixTasks(running, d) : tasks[j].status = COMPLETED

(***************************************************************************)
(* C6                                                                      *)
(***************************************************************************)
\* C6: execute_plan never starts more than max_global_iterations passes, the
\* iteration_count it returns is at most max_global_iterations, and every call
\* returns.
C6_ReturnsWithinGlobalPasses ==
    /\ [](iteration <= config.max_global_iterations)
    /\ [](returned # None =>
            returned[1].iteration_count <= config.max_global_iterations)
    /\ (pc = "while" ~> pc = "returned")

\* a call under the default configuration used all its passes on a task that
\* always fails, and returned
C6_Witness ==
    /\ pc = "returned"
    /\ config.max_global_iterations = DefaultMaxGlobalIterations
    /\ returned[1].iteration_count = DefaultMaxGlobalIterations
    /\ \E i \in TaskIndices : tasks[i].status = FAILED

(***************************************************************************)
(* C7                                                                      *)
(***************************************************************************)
AllowedTransition(old, new) ==
    \/ old.status = new.status
    \/ old.status = PENDING /\ new.status = RUNNING
    \/ old.status = RUNNING /\ new.status \in {COMPLETED, FAILED}
    \/ /\ old.status = FAILED
       /\ new.status = PENDING
       /\ old.iteration_count < old.max_iterations

\* C7: during execute_plan a task's status only changes Pending->Running,
\* Running->Completed, Running->Failed, or Failed->Pending while
\* iteration_count < max_iterations.
C7_StatusTransitions ==
    [][ (InExecutePlan /\ pc' \in {"while", "for", "collect"})
          => \A i \in TaskIndices : AllowedTransition(tasks[i], tasks'[i]) ]_vars

(***************************************************************************)
(* C8                                                                      *)
(***************************************************************************)
\* C8: the plan of the single task X with max_iterations = 2 whose unit of
\* work always fails, under the default configuration, returns with X invoked
\* exactly twice (passes 1 and 2), Failed, iteration_count 2, two errors.
C8_RetryScenario ==
    ( /\ pc = "returned"
      /\ planning.phase = 0
      /\ config.max_global_iterations = DefaultMaxGlobalIterations
      /\ Len(tasks) = 1
      /\ tasks[1].agent_name = N_X
      /\ tasks[1].max_iterations = 2
      /\ tasks[1].agent_class.outcome = "raises" )
    => /\ log = << [pass |-> 1, task |-> N_X], [pass |-> 2, task |-> N_X] >>
       /\ tasks[1].status = FAILED
       /\ tasks[1].iteration_count = 2
       /\ Len(tasks[1].errors) = 2

(***************************************************************************)
(* C9                                                                      *)
(***************************************************************************)
IsScenarioRun ==
    /\ planning.phase = 0
    /\ config.max_global_iterations = DefaultMaxGlobalIterations
    /\ Len(tasks) = 5
    /\ \A i \in TaskIndices : tasks[i].agent_class.outcome = "returns"
    /\ [i \in TaskIndices |->
            <<tasks[i].agent_name, tasks[i].dependencies, tasks[i].priority>>]
         = << <<N_A, <<>>, 10>>, <<N_B, <<N_A>>, 0>>,
              <<N_C, <<N_scene_any>>, 0>>, <<N_scene_1, <<N_B>>, 0>>,
              <<N_scene_2, <<N_B>>, 0>> >>

\* C9: the plan A, B (on A), C (on scene_*), scene_1 and scene_2 (on B), every
\* unit of work succeeding, runs A in pass 1, B in pass 2, scene_1 and scene_2
\* in pass 3 and C in pass 4, and returns completed = 5, failed = 0.
C9_Scenario ==
    (IsScenarioRun /\ pc = "returned") =>
        /\ ExecutedInPass(1) = {N_A}
        /\ ExecutedInPass(2) = {N_B}
        /\ ExecutedInPass(3) = {N_scene_1, N_scene_2}
        /\ ExecutedInPass(4) = {N_C}
        /\ Len(log) = 5
        /\ returned[1].completed = 5
        /\ returned[1].failed = 0

\* the scenario ran to its return, C having run last
C9_Witness ==
    /\ IsScenarioRun
    /\ pc = "returned"
    /\ returned[1].iteration_count = 4
    /\ log[5] = [pass |-> 4, task |-> N_C]

(***************************************************************************)
(* C10                                                                     *)
(***************************************************************************)
AllTerminal ==
    \A i \in TaskIndices :
        \/ tasks[i].status = COMPLETED
        \/ tasks[i].status = FAILED
           /\ tasks[i].iteration_count >= tasks[i].max_iterations

\* C10: when a pass is about to start and every task is Completed or
\* permanently Failed, at least one of them Failed, the next step of
\* execute_plan leaves the loop without executing a unit of work.
C10_TerminalPlanStops ==
    [][ ( /\ pc = "while"
          /\ Len(tasks) > 0
          /\ AllTerminal
          /\ \E i \in TaskIndices : tasks[i].status = FAILED )
        => (pc' = "collect" /\ tasks' = tasks /\ log' = log) ]_vars

(***************************************************************************)
(* C11                                                                     *)
(***************************************************************************)
\* the tasks that are ready now, as section 4.1 defines readiness
ReadyNow ==
    { i \in TaskIndices :
        tasks[i].status # COMPLETED /\ AllSatisfied(i, completed_tasks) }

\* every task waits, by an exact name, for a task of the plan: nothing can
\* ever be ready (the plans whose tasks all lie on a cycle are of this kind)
EveryTaskWaits ==
    /\ Len(tasks) > 0
    /\ \A i \in TaskIndices :
          \E d \in 1..Len(tasks[i].dependencies) :
              \E j \in TaskIndices :
                  tasks[i].dependencies[d] = tasks[j].agent_name

\* C11: a pass that starts with no ready task and some Pending task ends the
\* loop at once and leaves every task as it was; a plan whose tasks all wait
\* for each other returns after pass 1, nothing invoked, completed = failed = 0.
C11_StuckPlanStops ==
    /\ [][ ( /\ pc = "while"
             /\ iteration < config.max_global_iterations
             /\ ReadyNow = {}
             /\ \E i \in TaskIndices : tasks[i].status = PENDING )
           => ( /\ pc' = "collect"
                /\ iteration' = iteration + 1
                /\ tasks' = tasks
                /\ log' = log ) ]_vars
    /\ []( ( /\ pc = "returned"
             /\ planning.phase = 0
             /\ EveryTaskWaits
             /\ config.max_global_iterations >= 1 )
           => ( /\ returned[1].iteration_count = 1
                /\ log = <<>>
                /\ returned[1].completed = 0
                /\ returned[1].failed = 0
                /\ \A i \in TaskIndices :
                      /\ tasks[i].status = PENDING
                      /\ tasks[i].iteration_count = 0 ) )

\* the two-task cycle returned after its first pass
C11_Witness ==
    /\ pc = "returned"
    /\ planning.phase = 0
    /\ Len(tasks) = 2
    /\ tasks[1].dependencies = <<tasks[2].agent_name>>
    /\ tasks[2].dependencies = <<tasks[1].agent_name>>
    /\ returned[1].iteration_count = 1
    /\ config.max_global_iterations = DefaultMaxGlobalIterations

(***************************************************************************)
(* C12                                                                     *)
(***************************************************************************)
\* the dependencies of task i are all exact names of tasks of the plan
ExactDependencies(i) ==
    \A d \in 1..Len(tasks[i].dependencies) :
        /\ ~IsWildcard(tasks[i].dependencies[d])
        /\ \E j \in TaskIndices : tasks[j].agent_name = tasks[i].dependencies[d]

\* the tasks of dependency depth at most k that never failed and whose
\* transitive dependencies (all by exact name) never failed either
RECURSIVE SucceededUpTo(_)
SucceededUpTo(k) ==
    IF k = 0 THEN {}
    ELSE LET below == SucceededUpTo(k - 1)
         IN  { i \in TaskIndices :
                 /\ tasks[i].agent_name \notin failed_tasks
                 /\ ExactDependencies(i)
                 /\ \A d \in 1..Len(tasks[i].dependencies) :
                       TaskIndex(tasks, tasks[i].dependencies[d]) \in below }

\* C12: when execute_plan has returned, a task of depth at most
\* max_global_iterations that never failed, and whose transitive dependencies
\* (exact names of plan tasks) never failed, is Completed, whatever happened
\* to the other tasks.
C12_FailuresContained ==
    (pc = "returned")
        => \A i \in SucceededUpTo(config.max_global_iterations) :
               tasks[i].status = COMPLETED

\* a task of depth 2 is Completed although an unrelated task has failed
C12_Witness ==
    /\ pc = "returned"
    /\ \E i \in SucceededUpTo(config.max_global_iterations) :
          /\ tasks[i].dependencies # <<>>
          /\ tasks[i].status = COMPLETED
    /\ \E j \in TaskIndices : tasks[j].status = FAILED

(***************************************************************************)
(* C14                                                                     *)
(***************************************************************************)
\* task i has a registry in its context, its agent returns, and the result
\* references a placeholder or an unregistered entity ID
ReturnsInvalidIds(i) ==
    /\ HasRegistry(tasks[i].context)
    /\ tasks[i].agent_class.outcome = "returns"
    /\ tasks[i].agent_class.result.ids \in {"unregistered", "placeholder"}

\* C14: when _execute_task finishes a task of any name whose context has an
\* entity registry and whose returned result references a placeholder or
\* unregistered ID, it leaves the task Failed with an error, in the failed
\* set, not in the completed set, without result, and propagates nothing.
C14_InvalidIdsFailAnyTask ==
    [][ \A i \in TaskIndices :
          ( /\ running = i
            /\ running' = 0
            /\ ReturnsInvalidIds(i) )
          => ( /\ tasks'[i].status = FAILED
               /\ tasks'[i].errors # <<>>
               /\ tasks[i].agent_name \in failed_tasks'
               /\ tasks[i].agent_name \notin completed_tasks'
               /\ tasks'[i].result = None
               /\ \A j \in TaskIndices : j # i => tasks'[j] = tasks[j] ) ]_vars

(***************************************************************************)
(* C15                                                                     *)
(***************************************************************************)
\* the agent of task i returns, no entity ID check stops the result, and the
\* task's validation_fn reports valid = false
ValidatorRejects(i) ==
    /\ tasks[i].agent_class.outcome = "returns"
    /\ ~(HasRegistry(tasks[i].context) /\ ValidatesEntityIds(tasks[i].agent_name))
    /\ tasks[i].validation_fn # "none"
    /\ ~ValidationFn(tasks[i].validation_fn, tasks[i].agent_class.result).valid

\* C15: an attempt whose result the validation_fn rejects ends as an attempt
\* that raised: status Failed, the validator's message appended to errors, the
\* task in the failed set and not in the completed set, no result, no other
\* task's context touched, the attempt counted; and the end of the pass
\* resets the task to Pending with errors cleared while iteration_count is
\* below max_iterations.
C15_RejectedResultFails ==
    /\ [][ \A i \in TaskIndices :
             (running = i /\ running' = 0 /\ ValidatorRejects(i))
             => ( /\ tasks'[i] =
                       [tasks[i] EXCEPT
                          !.status = FAILED,
                          !.errors = Append(@,
                              ValidationFn(tasks[i].validation_fn,
                                           tasks[i].agent_class.result).message)]
                  /\ tasks'[i].iteration_count >= 1
                  /\ tasks'[i].result = None
                  /\ tasks[i].agent_name \in failed_tasks'
                  /\ tasks[i].agent_name \notin completed_tasks'
                  /\ \A j \in TaskIndices : j # i => tasks'[j] = tasks[j] ) ]_vars
    /\ [][ \A i \in TaskIndices :
             ( /\ pc = "for" /\ pc' = "while"
               /\ ValidatorRejects(i)
               /\ tasks[i].status = FAILED
               /\ tasks[i].iteration_count < tasks[i].max_iterations )
             => tasks'[i] = [tasks[i] EXCEPT !.status = PENDING,
                                             !.errors = <<>>] ]_vars

\* a rejected task was reset, ran again and was rejected again, while the task
\* that waits for it never ran
C15_Witness ==
    \E i \in TaskIndices :
        /\ ValidatorRejects(i)
        /\ running = 0
        /\ tasks[i].status = FAILED
        /\ tasks[i].iteration_count = 2
        /\ tasks[i].errors = <<"rejected">>
        /\ \E j \in TaskIndices :
              /\ DependsOn(tasks[j], tasks[i].agent_name)
              /\ tasks[j].iteration_count = 0

(***************************************************************************)
(* C13                                                                     *)
(***************************************************************************)
\* C13: whatever the tasks and the gates do, execute_planning_loop goes
\* through its phases one after the other, calls execute_plan once in each of
\* the seven phases that have tasks, with the tasks of that phase, and ends
\* with consolidation and a returned outline.
C13_AllPhasesRun ==
    /\ [][ planning.phase' # planning.phase
           => planning.phase' = planning.phase + 1 ]_vars
    /\ [][ (pc = "idle" /\ pc' = "while")
           => ( /\ planning.phase \in 1..7
                /\ planning' = planning
                /\ tasks' = PhaseTasks(planning) ) ]_vars
    /\ [][ (pc # "idle" /\ pc' = "idle")
           => planning.phase' = planning.phase + 1 ]_vars
    /\ (planning.phase = 1)
          ~> (planning.phase = 9 /\ pc = "planned" /\ planning.outline # None)

\* a run in which both gates failed and the coverage verifier never completed
\* has returned its outline
C13_Witness ==
    /\ planning.phase = 9
    /\ planning.outline # None
    /\ planning.gate_failures = <<ARC_STRUCTURE, SCENE_QUALITY>>
    /\ planning.agents = "either"
    /\ config.max_global_iterations >= 1
    /\ planning.coverage_result = EmptyDict

(***************************************************************************)
(* C16                                                                     *)
(***************************************************************************)
\* the step outcomes the metadata of an outline holds
MetadataOutcomes(metadata) ==
    {metadata.validation_results[k] : k \in DOMAIN metadata.validation_results}
    \cup {metadata.character_plan}

\* C16: the metadata of the returned outline holds the outcome of the early
\* theme check, of the coverage verification, of the thematic, timeline,
\* pacing and foreshadowing validations, and the idea proposals.
C16_MetadataRecordsAll ==
    (planning.phase = 9)
        => LET metadata == planning.outline[1].metadata
           IN  /\ {"theme_analysis", "timeline_validation", "pacing_analysis",
                   "foreshadowing_analysis"}
                      \subseteq DOMAIN metadata.validation_results
               /\ "idea_proposals" \in DOMAIN metadata
               /\ planning.theme_validation \in MetadataOutcomes(metadata)
               /\ planning.coverage_result \in MetadataOutcomes(metadata)

(***************************************************************************)
(* C17                                                                     *)
(***************************************************************************)
\* the metadata consolidation builds when the validation phase and the idea
\* generation phase are handed the value ret of execute_plan
MetadataOf(ret) ==
    Outline([planning EXCEPT
               !.refined_outline = RefinedOutline(planning, ret),
               !.idea_proposals = ResultOutput(ret, N_idea_generator)]).metadata

\* the returned value of the run in which task name never completed
WithoutResult(ret, name) ==
    [ret EXCEPT !.results = [n \in (DOMAIN @) \ {name} |-> @[n]]]

MetadataProducers ==
    {N_theme_guardian, N_timeline_manager, N_pacing_agent,
     N_foreshadowing_agent, N_idea_generator}

\* C17: when a validation or proposal task completed with an empty output,
\* the metadata differs from the metadata of the run in which that task never
\* completed.
C17_MissingDiffersFromEmpty ==
    (pc = "returned")
        => \A name \in MetadataProducers \cap DOMAIN returned[1].results :
               ResultOutput(returned[1], name) = EmptyDict
               => MetadataOf(returned[1])
                     # MetadataOf(WithoutResult(returned[1], name))

(***************************************************************************)
(* C18                                                                     *)
(***************************************************************************)
\* the timeline names every arc once and nothing else
Enumerates(timeline, arcs) ==
    /\ Len(timeline) = Len(arcs)
    /\ {timeline[i] : i \in 1..Len(timeline)} = {arcs[i] : i \in 1..Len(arcs)}

\* C18: the arc-structure gate, checked with its default validator and a
\* registry, passes exactly when there is at least one arc and the timeline
\* is absent or enumerates exactly the arcs.
C18_ArcStructureGate ==
    ( /\ gate_check # None
      /\ gate_check[1].gate = ARC_STRUCTURE
      /\ gate_check[1].validator = ARC_STRUCTURE
      /\ gate_check[1].registry = 1 )
    => LET data == gate_check[1].data
           arcs == IF IsDict(data) THEN DictGet(data.d, "arcs", <<>>) ELSE <<>>
           timeline == IF IsDict(data) THEN DictGet(data.d, "timeline", <<>>)
                       ELSE <<>>
       IN  gate_check[1].pass
              <=> ( /\ Len(arcs) > 0
                    /\ (timeline = <<>> \/ Enumerates(timeline, arcs)) )

(***************************************************************************)
(* C19                                                                     *)
(***************************************************************************)
\* C19: a check of a gate that has no validator returns true, for every data
\* and registry value, and changes nothing but the record of the check.
C19_NoValidatorPasses ==
    [][ \A gate \in QualityGate :
          ( /\ quality_gates[gate] = NoValidator
            /\ gate_check' # gate_check
            /\ gate_check'[1].gate = gate )
          => ( /\ gate_check'[1].pass
               /\ gate_check'[1].message = NoMessage
               /\ UNCHANGED <<quality_gates, config, tasks, completed_tasks,
                              failed_tasks, iteration, ready_tasks, ready_pos,
                              running, pc, returned, log,
                              completed_at_pass_start, planning>> ) ]_vars

\* a gate without validator was checked, without registry, on data its default
\* validator rejects
C19_Witness ==
    /\ gate_check # None
    /\ gate_check[1].validator = NoValidator
    /\ quality_gates[gate_check[1].gate] = NoValidator
    /\ gate_check[1].registry = 0
    /\ ~Validate(gate_check[1].gate, gate_check[1].data).pass
    /\ gate_check[1].pass

C21_PropagationIdempotent ==
    \A c \in TaskIndices :
        tasks[c].result # None
        => /\ \A i \in TaskIndices :
                LET once == DictUpdate(tasks[i].context, tasks[c].result[1].output)
                IN  DictUpdate(once, tasks[c].result[1].output) = once
           /\ LET delivered == UpdateDependentContexts(tasks, c)
              IN  UpdateDependentContexts(delivered, c) = delivered

\* the output of a completed task sits in the context of a task that waits
\* for it: a key was overwritten and a key was added
C21_Witness ==
    \E c \in TaskIndices, i \in TaskIndices :
        /\ tasks[c].result # None
        /\ DependsOn(tasks[i], tasks[c].agent_name)
        /\ tasks[i].iteration_count = 0
        /\ tasks[c].agent_class.result.output = OutputOf(1)
        /\ tasks[i].context = ("shared" :> 1) @@ ("k1" :> 1)

(***************************************************************************)
(* C22                                                                     *)
(***************************************************************************)
\* task j has a dependency entry that matches the name of task c
Matches(j, c) ==
    \E d \in 1..Len(tasks[j].dependencies) :
        Satisfied(tasks[j].dependencies[d], {tasks[c].agent_name})

\* the step in which task c completes
Completes(c) ==
    /\ running = c
    /\ running' = 0
    /\ tasks'[c].status = COMPLETED

\* C22: in the step in which a task c completes (no other task runs in
\* between) its output is merged into the context of every task with a
\* dependency entry matching c, exactly or by wildcard: the output's keys
\* are set, all other keys keep their value; the context of every other
\* task is unchanged; no dependencies change; and no step of execute_plan
\* removes a key from a context.
C22_PropagationFrame ==
    /\ [][ \A c \in TaskIndices :
             Completes(c)
             => LET output == tasks'[c].result[1].output
                IN  \A j \in TaskIndices :
                      /\ tasks'[j].dependencies = tasks[j].dependencies
                      /\ IF Matches(j, c)
                         THEN /\ DOMAIN tasks'[j].context
                                   = (DOMAIN tasks[j].context) \cup (DOMAIN output)
                              /\ \A k \in DOMAIN output :
                                    tasks'[j].context[k] = output[k]
                              /\ \A k \in (DOMAIN tasks[j].context) \ (DOMAIN output) :
                                    tasks'[j].context[k] = tasks[j].context[k]
                         ELSE tasks'[j].context = tasks[j].context ]_vars
    /\ [][ (InExecutePlan /\ Len(tasks') = Len(tasks))
           => \A j \in TaskIndices :
                 /\ (DOMAIN tasks[j].context) \subseteq (DOMAIN tasks'[j].context)
                 /\ tasks'[j].dependencies = tasks[j].dependencies ]_vars

\* a task that waits by wildcard holds the output of a completed task, and a
\* task that does not wait for it still has its first context
C22_Witness ==
    \E c \in TaskIndices, j \in TaskIndices, u \in TaskIndices :
        /\ tasks[c].status = COMPLETED
        /\ \E d \in 1..Len(tasks[j].dependencies) :
              /\ IsWildcard(tasks[j].dependencies[d])
              /\ Satisfied(tasks[j].dependencies[d], {tasks[c].agent_name})
        /\ tasks[j].iteration_count = 0
        /\ \A k \in DOMAIN tasks[c].result[1].output :
              /\ k \in DOMAIN tasks[j].context
              /\ tasks[j].context[k] = tasks[c].result[1].output[k]
        /\ u # c
        /\ ~Matches(u, c)
        /\ tasks[u].context = PlainContext

(***************************************************************************)
(* C23                                                                     *)
(***************************************************************************)
\* the exact dependency entries of task i
ExactDependencyNames(i) ==
    {tasks[i].dependencies[d] : d \in {e \in 1..Len(tasks[i].dependencies) :
                                         ~IsWildcard(tasks[i].dependencies[e])}}

\* C23: while the unit of work of a task T is being awaited, every exact
\* dependency of T names a task of the plan that completed in this call, and
\* T's context holds every key of that task's output.
C23_ContextHoldsDependencyOutputs ==
    (running # 0)
        => \A name \in ExactDependencyNames(running) :
              /\ name \in completed_tasks
              /\ \E c \in TaskIndices :
                    /\ tasks[c].agent_name = name
                    /\ tasks[c].status = COMPLETED
                    /\ tasks[c].result # None
                    /\ (DOMAIN tasks[c].result[1].output)
                          \subseteq (DOMAIN tasks[running].context)

\* a task with an exact dependency is running and an output key of that
\* dependency is in its context
C23_Witness ==
    /\ running # 0
    /\ ExactDependencyNames(running) # {}
    /\ \E c \in TaskIndices :
          /\ tasks[c].agent_name \in ExactDependencyNames(running)
          /\ tasks[c].result # None
          /\ DOMAIN tasks[c].result[1].output # {}
          /\ ~((DOMAIN tasks[c].result[1].output) \subseteq (DOMAIN PlainContext))
          /\ (DOMAIN tasks[c].result[1].output)
                \subseteq (DOMAIN tasks[running].context)

(***************************************************************************)
(* C24                                                                     *)
(***************************************************************************)
\* C24: in the ready batch of a pass, no task has a dependency entry that
\* matches, exactly or by wildcard prefix, the name of another task of the
\* batch.
C24_BatchIndependent ==
    (pc = "for")
        => \A a \in 1..Len(ready_tasks), b \in 1..Len(ready_tasks) :
              a # b => ~Matches(ready_tasks[a], ready_tasks[b])

(***************************************************************************)
(* C25                                                                     *)
(***************************************************************************)
\* the pass that is ending is followed by another one: not every task is
\* Completed and the global pass budget is not used up
PassGoesOn ==
    /\ pc = "for" /\ running = 0 /\ ready_pos = Len(ready_tasks)
    /\ ~AllCompleted(tasks)
    /\ WhileCondition(iteration, config)

\* the tasks the reset before this pass put back to Pending
ResetTasks ==
    {i \in TaskIndices : tasks[i].status = PENDING /\ tasks[i].iteration_count > 0}

RunningTasks == {i \in TaskIndices : tasks[i].status = RUNNING}

\* the position in the submitted plan of the task of log entry k
Submitted(k) == TaskIndex(tasks, log[k].task)

\* log entries k and l belong to one pass, k before l
SamePassInOrder(k, l) == k < l /\ log[k].pass = log[l].pass

\* C26: within a pass the ready tasks are executed one at a time (at most one
\* task is Running at any moment) in descending priority, and ready tasks of
\* equal priority are executed in the order in which they were submitted
C26_SequentialByPriority ==
    InExecutePlan =>
        /\ Cardinality(RunningTasks) <= 1
        /\ RunningTasks = IF running = 0 THEN {} ELSE {running}
        /\ \A k \in 1..Len(log), l \in 1..Len(log) :
              SamePassInOrder(k, l) =>
                 \/ tasks[Submitted(k)].priority > tasks[Submitted(l)].priority
                 \/ /\ tasks[Submitted(k)].priority = tasks[Submitted(l)].priority
                    /\ Submitted(k) < Submitted(l)

\* one pass ran three tasks: a later-submitted task of higher priority ran
\* before an earlier one, and two tasks of equal priority ran as submitted
C26_Witness ==
    /\ PassFinished
    /\ \E k \in 1..Len(log), l \in 1..Len(log) :
          /\ SamePassInOrder(k, l)
          /\ Submitted(k) > Submitted(l)
          /\ tasks[Submitted(k)].priority > tasks[Submitted(l)].priority
    /\ \E k \in 1..Len(log), l \in 1..Len(log) :
          /\ SamePassInOrder(k, l)
          /\ tasks[Submitted(k)].priority = tasks[Submitted(l)].priority

(***************************************************************************)
(* C27                                                                     *)
(***************************************************************************)
\* the tasks that are not Completed after at least one failed attempt
FailedForGood ==
    {i \in TaskIndices : tasks[i].status # COMPLETED
                          /\ tasks[i].agent_name \in failed_tasks}

\* C27: at every point of an execute_plan run the completed set and the
\* failed set are disjoint, so the returned failed count is the number of
\* tasks that are not Completed after at least one failed attempt, and no
\* task is counted both as completed and as failed
C27_CompletedFailedDisjoint ==
    /\ (InExecutePlan \/ pc = "returned")
          => completed_tasks \cap failed_tasks = {}
    /\ (pc = "returned")
          => returned[1].failed = Cardinality(FailedForGood)

(***************************************************************************)
(* C28                                                                     *)
(***************************************************************************)
\* every dependency entry is the exact name of a task submitted earlier in
\* the same plan, so the plan has no cycle
ExactAcyclicPlan ==
    \A i \in TaskIndices :
        \A d \in 1..Len(tasks[i].dependencies) :
            /\ ~IsWildcard(tasks[i].dependencies[d])
            /\ \E j \in 1..(i - 1) : tasks[j].agent_name = tasks[i].dependencies[d]

\* no attempt of the run has failed
NoAttemptFailed == failed_tasks = {}

\* C28: for every acyclic plan with only exact dependencies on tasks of the
\* same plan in which every unit of work succeeds on its first attempt,
\* execute_plan returns with every task Completed and completed equal to the
\* number of tasks, whatever the dependency depth, under the default
\* configuration
C28_AcyclicPlanCompletes ==
    (/\ pc = "returned"
     /\ planning.phase = 0
     /\ config.max_global_iterations = DefaultMaxGlobalIterations
     /\ ExactAcyclicPlan
     /\ NoAttemptFailed)
        => /\ AllCompleted(tasks)
           /\ returned[1].completed = Len(tasks)

(***************************************************************************)
(* C29                                                                     *)
(***************************************************************************)
\* the tasks that were invoked at least once and are not Completed
ExecutedNotCompleted ==
    {i \in TaskIndices : tasks[i].iteration_count > 0
                          /\ tasks[i].status # COMPLETED}

\* C29: when execute_plan returns, every task that was executed at least
\* once and is not Completed has status Failed and a non-empty errors list
\* (the message of its most recent failed attempt), for every value of
\* max_global_iterations and max_iterations
C29_UnfinishedTasksAreFailed ==
    (pc = "returned")
        => \A i \in ExecutedNotCompleted :
              /\ tasks[i].status = FAILED
              /\ tasks[i].errors # <<>>

(***************************************************************************)
(* C30                                                                     *)
(***************************************************************************)
\* the last check was made with the gate's default validator on data the
\* validator evaluates without raising and whose pass condition is false
DefaultGateRejects ==
    /\ gate_check # None
    /\ gate_check[1].validator = gate_check[1].gate
    /\ ~ValidatorRaises(gate_check[1].validator, gate_check[1].data, 1)
    /\ ~Validate(gate_check[1].validator, gate_check[1].data).pass

\* C30: _check_quality_gate returns the registered validator's verdict whether
\* or not a registry is supplied: for each default gate and every data value
\* on which the gate's pass condition is false, the check returns false both
\* when a registry is passed and when it is omitted
C30_VerdictWithoutRegistry ==
    DefaultGateRejects => ~gate_check[1].pass

====
